---- MODULE Spec2Model ----
(***************************************************************************)
(* Model of GraphQueryEngine (src/src/query_engine.py): keyword            *)
(* extraction, the scored graph lookup with its one-hop expansion, the     *)
(* tool-calling answerer and the escalation logic of search.               *)
(*                                                                         *)
(* Strings are sequences of one-character strings, so that lower-casing    *)
(* and substring tests are computed, not assumed.  A letter with           *)
(* diacritics is written as one character in ASCII: "o^~" is o with        *)
(* circumflex and tilde, "O^~" its capital.                                *)
(***************************************************************************)
EXTENDS Integers, Sequences, FiniteSets, TLC

VARIABLES
    store,          \* the graph store: [entities, rels]
    query,          \* the question passed to search
    force,          \* force_web_search
    pc,             \* position of the query in search
    extract_resp,   \* what the extraction model call answered
    search_terms,   \* list returned by _extract_search_intents
    entities,       \* rows of the ranked lookup, in the order returned
    idx,            \* position of the expansion loop in entities
    context_lines,  \* context_lines of _get_relevant_context
    graph_nodes,    \* graph_nodes, in insertion order
    graph_edges,    \* graph_edges
    messages,       \* the conversation (list mutated in place)
    path,           \* branch of search taken: none/forced/graph/empty
    sub,            \* which call site of _run_tool_search is running
    graph_msg,      \* response of the direct graph call (local msg of search)
    tool_msg,       \* first response inside _run_tool_search (local msg)
    tc_idx,         \* position of the tool-call loop
    final_msg,      \* response of the follow-up completion (final_response)
    llm_calls,      \* completions requested so far: [tools, sent]
    web_calls,      \* number of web searches executed
    web_log,        \* the searches executed: [id, raised]
    peer,           \* the local variables of another call of search in progress
    me,             \* which call the other variables belong to
    failed,         \* which collaborator call raised, if any
    result          \* value returned by search, or NoResult

vars == <<store, query, force, pc, extract_resp, search_terms, entities, idx,
          context_lines, graph_nodes, graph_edges, messages, path, sub,
          graph_msg, tool_msg, tc_idx, final_msg, llm_calls, web_calls, web_log,
          failed, result, peer, me>>

-----------------------------------------------------------------------------
(* Bounds of the model *)

\* longest keyword list handed to the ranked lookup
MaxTerms == 2
\* most relations held by a store
MaxRels == 2
\* most capability invocations in one model response
MaxToolCalls == 2
\* longest "keywords" list the extraction model answers with
MaxKeywords == 1
\* most results the search collaborator answers with
MaxHits == 1

(* Program constants *)

\* LIMIT 5 of the ranked lookup
TopLimit == 5
\* LIMIT 5 of the relation lookup
RelLimit == 5

-----------------------------------------------------------------------------
(* Strings *)

\* None / a missing property, for a value that is otherwise a string
NULL == <<"<null>">>

\* None / a missing property, for a type label
NoType == "<null>"

Min(a, b) == IF a < b THEN a ELSE b

\* str.lower / toLower on one character
LowerChar(c) ==
    CASE c = "A" -> "a"
      [] c = "B" -> "b"
      [] c = "C" -> "c"
      [] c = "X" -> "x"
      [] c = "I" -> "i"
      [] c = "K" -> "k"
      [] c = "L" -> "l"
      [] c = "O^~" -> "o^~"
      [] OTHER -> c

Lower(s) == [i \in 1..Len(s) |-> LowerChar(s[i])]

\* Python `t in s`, Cypher `s CONTAINS t`
Contains(s, t) ==
    \E i \in 0..(Len(s) - Len(t)) : SubSeq(s, i + 1, i + Len(t)) = t

-----------------------------------------------------------------------------
(* The graph store *)

Entity(n, d, t) == [name |-> n, description |-> d, type |-> t]

EntityPool ==
    { Entity(<<"A", "b">>, <<"b", "a">>, "Block"),
      Entity(<<"a">>, NULL, NoType),
      Entity(<<"b">>, <<>>, "Concept"),
      Entity(<<"c", "a">>, <<"A", "B">>, "") }

Rel(s, r, t) == [source |-> s, rel |-> r, target |-> t]

RelPool ==
    { Rel(<<"A", "b">>, "HAS_PART", <<"a">>),
      Rel(<<"A", "b">>, "USES", <<"a">>),
      Rel(<<"A", "b">>, "HAS_PART", <<"b">>),
      Rel(<<"a">>, "USES", <<"A", "b">>),
      Rel(<<"a">>, "USES", <<"a">>),
      Rel(<<"b">>, "HAS_PART", <<"c", "a">>) }

NamesOf(es) == {e.name : e \in es}

SubsetsUpTo(S, n) == {T \in SUBSET S : Cardinality(T) <= n}

\* every store over the pools: relations join entities of the store
Stores ==
    { [entities |-> es, rels |-> rs] :
        es \in SUBSET EntityPool,
        rs \in SubsetsUpTo(RelPool, MaxRels) }

WellFormedStore(st) ==
    \A r \in st.rels : r.source \in NamesOf(st.entities)
                       /\ r.target \in NamesOf(st.entities)

TermPool == { <<"a">>, <<"A", "B">>, <<"x">>, <<>> }

SeqsUpTo(S, n) == UNION {[1..k -> S] : k \in 0..n}

TermLists == SeqsUpTo(TermPool, MaxTerms)

\* a store with more matches than the lookup keeps and an entity with more
\* relations than its expansion keeps
RankEntityPool ==
    EntityPool \cup
    { Entity(<<"a", "b", "x">>, <<"x">>, "Block"),
      Entity(<<"B">>, <<"a">>, "Concept"),
      Entity(<<"x">>, <<"a", "b">>, "Concept") }

HubRels ==
    { Rel(<<"B">>, t, n) :
        t \in {"HAS_PART", "USES", "IS_A"}, n \in {<<"a">>, <<"b">>} }

RankStores == { [entities |-> RankEntityPool, rels |-> rs] : rs \in {{}, HubRels} }

RankTermLists == SeqsUpTo(TermPool \ {<<>>}, MaxTerms)

-----------------------------------------------------------------------------
(* _get_relevant_context: the ranked lookup *)

\* variant: the three WHEN tests each add their weight
ContributionAdds(e, term) ==
    (IF Lower(e.name) = Lower(term) THEN 10 ELSE 0)
    + (IF Contains(Lower(e.name), Lower(term)) THEN 5 ELSE 0)
    + (IF e.description # NULL
          /\ Contains(Lower(e.description), Lower(term)) THEN 2 ELSE 0)

\* the CASE of the weighted Cypher query, for one term
Contribution(e, term) ==
    IF Lower(e.name) = Lower(term) THEN 10
    ELSE IF Contains(Lower(e.name), Lower(term)) THEN 5
    ELSE IF e.description # NULL
            /\ Contains(Lower(e.description), Lower(term)) THEN 2
    ELSE 0

\* variant: the best term alone gives the score
RECURSIVE ScoreBest(_, _)
ScoreBest(e, terms) ==
    IF terms = <<>> THEN 0
    ELSE LET c == Contribution(e, Head(terms))
             r == ScoreBest(e, Tail(terms))
         IN  IF c > r THEN c ELSE r

\* reduce(s = 0, term IN $terms | s + CASE ... END)
RECURSIVE Score(_, _)
Score(e, terms) ==
    IF terms = <<>> THEN 0
    ELSE Contribution(e, Head(terms)) + Score(e, Tail(terms))

\* variant: WHERE score >= 0
QualifiesAllowsZero(e, terms) == Score(e, terms) >= 0

\* WHERE score > 0
Qualifies(e, terms) == Score(e, terms) > 0

Qualifying(st, terms) == {e \in st.entities : Qualifies(e, terms)}

InjectiveSeqs(S, n) ==
    {s \in [1..n -> S] : \A i, j \in 1..n : i # j => s[i] # s[j]}

\* variant: LIMIT 5 without ORDER BY
RankedRowsUnordered(st, terms) ==
    LET Q == Qualifying(st, terms)
    IN  InjectiveSeqs(Q, Min(TopLimit, Cardinality(Q)))

\* ORDER BY score DESC LIMIT 5: every order of ties is a possible answer
RankedRows(st, terms) ==
    LET Q == Qualifying(st, terms)
        n == Min(TopLimit, Cardinality(Q))
    IN  { s \in InjectiveSeqs(Q, n) :
            /\ \A i \in 1..(n - 1) : Score(s[i], terms) >= Score(s[i + 1], terms)
            /\ \A e \in Q \ {s[i] : i \in 1..n} :
                 \A i \in 1..n : Score(s[i], terms) >= Score(e, terms) }

\* MATCH (a:Entity {name: $name})-[r]->(b:Entity) ... LIMIT 5: any rows, any order
RelRows(st, name) ==
    LET R == {r \in st.rels : r.source = name
                              /\ r.target \in NamesOf(st.entities)}
        n == Min(RelLimit, Cardinality(R))
    IN  InjectiveSeqs(R, n)

EntityNamed(st, n) == CHOOSE e \in st.entities : e.name = n

-----------------------------------------------------------------------------
(* _get_relevant_context: building the bundle *)

\* `label or "Entity"`
GroupOf(t) == IF t = NoType \/ t = "" THEN "Entity" ELSE t

Node(n, d, t) == [id |-> n, label |-> n, title |-> d, group |-> GroupOf(t)]

HasKey(nodes, k) == \E i \in 1..Len(nodes) : nodes[i].id = k

\* variant: nodes kept in a list, every registration appended
DictSetAppends(nodes, k, v) == Append(nodes, v)

\* graph_nodes[k] = v on an insertion-ordered dict
DictSet(nodes, k, v) ==
    IF HasKey(nodes, k)
    THEN [i \in 1..Len(nodes) |-> IF nodes[i].id = k THEN v ELSE nodes[i]]
    ELSE Append(nodes, v)

\* variant: the target of a relation is not registered as a node
AddIfAbsentSkips(nodes, k, v) == nodes

\* if target_name not in graph_nodes: graph_nodes[target_name] = ...
AddIfAbsent(nodes, k, v) ==
    IF HasKey(nodes, k) THEN nodes ELSE Append(nodes, v)

\* str(v) inside an f-string
Str(v) == IF v = NULL THEN <<"N", "o", "n", "e">> ELSE v

\* sep.join(parts)
RECURSIVE Join(_, _)
Join(parts, sep) ==
    IF parts = <<>> THEN <<>>
    ELSE IF Len(parts) = 1 THEN Head(parts)
    ELSE Head(parts) \o sep \o Join(Tail(parts), sep)

\* f"ENTITY: {name} ({desc})"
EntityLine(e) ==
    <<"ENTITY: ">> \o e.name \o <<" (">> \o Str(e.description) \o <<")">>

\* f"  - {r['rel_type']} -> {target_name} ({r['target_desc']})"
RelLine(st, r) ==
    <<"  - ", r.rel, " -> ">> \o r.target \o <<" (">>
        \o Str(EntityNamed(st, r.target).description) \o <<")">>

\* "\n".join(context_lines)
ContextText(lines) == Join(lines, <<"\n">>)

Edge(s, t, l) == [source |-> s, target |-> t, label |-> l]

\* the inner loop `for r in rels`, over rows[k..]
RECURSIVE ExpandRels(_, _, _, _)
ExpandRels(st, name, rows, acc) ==
    IF rows = <<>> THEN acc
    ELSE LET r == Head(rows)
             t == EntityNamed(st, r.target)
         IN  ExpandRels(st, name, Tail(rows),
                 [lines |-> Append(acc.lines, RelLine(st, r)),
                  nodes |-> AddIfAbsent(acc.nodes, r.target,
                                        Node(t.name, t.description, t.type)),
                  edges |-> Append(acc.edges, Edge(name, r.target, r.rel))])

\* one turn of `for name, desc, label in entities`, given the relation rows
ExpandEntity(st, e, rows, acc) ==
    ExpandRels(st, e.name, rows,
        [lines |-> Append(acc.lines, EntityLine(e)),
         nodes |-> DictSet(acc.nodes, e.name,
                           Node(e.name, e.description, e.type)),
         edges |-> acc.edges])

\* graph_data = {"nodes": list(graph_nodes.values()), "edges": graph_edges}
GraphData(nodes, edges) == [nodes |-> nodes, edges |-> edges]

EmptyGraph == [nodes |-> <<>>, edges |-> <<>>]

-----------------------------------------------------------------------------
(* _extract_search_intents *)

IsSpace(c) == c \in {" ", "\t", "\n"}

\* the characters re.sub(r'[^\w\s]', '', query) removes
IsPunct(c) == c \in {"?", ",", ".", "!", "-"}

\* str.split(): the maximal runs of non-whitespace characters
RECURSIVE SplitFrom(_, _, _)
SplitFrom(s, cur, acc) ==
    IF s = <<>>
    THEN IF cur = <<>> THEN acc ELSE Append(acc, cur)
    ELSE IF IsSpace(Head(s))
         THEN SplitFrom(Tail(s), <<>>, IF cur = <<>> THEN acc ELSE Append(acc, cur))
         ELSE SplitFrom(Tail(s), Append(cur, Head(s)), acc)

Split(s) == SplitFrom(s, <<>>, <<>>)

\* variant: every keyword is kept as the model gave it
SplitKeywordsKeeps(ks) == ks

\* the loop over keywords: split the ones that hold a space
RECURSIVE SplitKeywords(_)
SplitKeywords(ks) ==
    IF ks = <<>> THEN <<>>
    ELSE (IF Contains(Head(ks), <<" ">>) THEN Split(Head(ks)) ELSE <<Head(ks)>>)
         \o SplitKeywords(Tail(ks))

Range(f) == {f[i] : i \in DOMAIN f}

\* list(set(final_keywords)): the distinct keywords, in any order
UniqueLists(ks) == InjectiveSeqs(Range(ks), Cardinality(Range(ks)))

\* re.sub(r'[^\w\s]', '', query)
StripPunct(s) == SelectSeq(s, LAMBDA c : ~IsPunct(c))

\* [w for w in clean.split() if len(w) > 3]
NaiveKeywords(q) == SelectSeq(Split(StripPunct(q)), LAMBDA w : Len(w) > 3)

\* the "keywords" lists the extraction model may answer with
KeywordPool ==
    { <<"a">>, <<"x">>, <<"A", "B", " ", "x">>,
      <<"a", "\t", "b">>, <<"a", " ", "b", "\t", "c">> }

KeywordLists == SeqsUpTo(KeywordPool, MaxKeywords)

QueryPool == { <<"a", "b", "a", "b", " ", "x", "?">>, <<"a", "?">> }

\* what the extraction call does: it raises, or answers with content that is
\* no JSON, JSON but no object, or an object whose "keywords" is missing,
\* null, a number, a string, a list holding a non-string, or a list of strings
ExtractResp(kind, keywords, text) ==
    [kind |-> kind, keywords |-> keywords, text |-> text]

NoExtract == ExtractResp("none", <<>>, <<>>)

\* the outcomes that end in the except clause
ExtractRaises(r) ==
    r.kind \in {"raise", "not_json", "not_object", "null", "number", "bad_items"}

\* iterating a str yields its characters
Chars(text) == [i \in 1..Len(text) |-> <<text[i]>>]

\* variant: the except clause returns no keyword
ExtractTermsEmptyOnError(q, r) ==
    IF ExtractRaises(r) THEN {<<>>}
    ELSE IF r.kind = "missing" THEN UniqueLists(SplitKeywords(<<>>))
    ELSE IF r.kind = "string" THEN UniqueLists(SplitKeywords(Chars(r.text)))
    ELSE UniqueLists(SplitKeywords(r.keywords))

\* the lists _extract_search_intents may return for question q and outcome r
ExtractTerms(q, r) ==
    IF ExtractRaises(r) THEN {NaiveKeywords(q)}
    ELSE IF r.kind = "missing" THEN UniqueLists(SplitKeywords(<<>>))
    ELSE IF r.kind = "string" THEN UniqueLists(SplitKeywords(Chars(r.text)))
    ELSE UniqueLists(SplitKeywords(r.keywords))

\* the "keywords" lists answered inside a whole search: none, one that hits
\* the graph, one that is split at its space
SearchKeywordLists ==
    { <<>>, << <<"a">> >>, << <<"A", "B", " ", "x">> >> }

\* the outcomes drawn inside a whole search
SearchExtractResponses ==
    {ExtractResp("list", ks, <<>>) : ks \in SearchKeywordLists}
    \cup {ExtractResp("raise", <<>>, <<>>)}

\* every outcome of the extraction call
ExtractResponses ==
    {ExtractResp("list", ks, <<>>) : ks \in KeywordLists}
    \cup {ExtractResp("list", <<k, k>>, <<>>) : k \in KeywordPool}
    \cup {ExtractResp("string", <<>>, t) : t \in {<<"a", "b">>, <<"a", " ", "a">>}}
    \cup {ExtractResp(k, <<>>, <<>>) :
             k \in {"raise", "not_json", "not_object", "missing", "null",
                    "number", "bad_items"}}

\* questions: with punctuation, tabs and runs of spaces, with a word given
\* twice, with short words only, empty
ExtractQueries ==
    QueryPool \cup
    { <<"a", "b", "a", "b", " ", "a", "b", "a", "b">>,
      <<"a", "b", "a", "b", ",", " ", "a", "b", "a", "b", "!">>,
      <<"a", "-", "b", "-", "c", "-", "d">>,
      <<"a", "b", "c", "d", "\t", "a", "b", "a", "b">>,
      <<" ", "a", "b", "a", "b", " ", " ">>,
      <<"a", "b", "c", " ", "a", "b", "c", "d", "e">>,
      <<"a", "b", "c", ".">>,
      <<>> }

-----------------------------------------------------------------------------
(* WebSearch.search *)

Hit(t, b, h) == [title |-> t, body |-> b, href |-> h]

HitPool == { Hit(<<"T">>, NULL, <<"H">>) }

\* outcomes of self.ddgs.text(query, max_results): a list of hits, or an error
DdgsOutcomes ==
    {[raised |-> TRUE, hits |-> <<>>]}
    \cup {[raised |-> FALSE, hits |-> h] : h \in SeqsUpTo(HitPool, MaxHits)}

\* r.get(key, default)
GetOr(v, default) == IF v = NULL THEN default ELSE v

\* the five lines of one result
HitLines(i, r) ==
    << <<"Result ", ToString(i), ":">>,
       <<"Title: ">> \o GetOr(r.title, <<"No Title">>),
       <<"Content: ">> \o GetOr(r.body, <<>>),
       <<"Source: ">> \o GetOr(r.href, <<>>),
       <<"---">> >>

RECURSIVE SummaryParts(_, _)
SummaryParts(hits, i) ==
    IF i > Len(hits) THEN <<>>
    ELSE HitLines(i, hits[i]) \o SummaryParts(hits, i + 1)

\* WebSearch.search: the summary, or "" on no results and on any error
WebSearchSearch(outcome) ==
    IF outcome.raised \/ outcome.hits = <<>> THEN <<>>
    ELSE Join(SummaryParts(outcome.hits, 1), <<"\n">>)

\* content = search_res if search_res else "No results found."
ToolContent(search_res) ==
    IF search_res = <<>> THEN <<"No results found.">> ELSE search_res

\* whether WebSearch.search raises: its except Exception catches every error
\* of the DDGS call and returns ""
WebSearchRaises(outcome) == FALSE

\* f"Error performing search: {str(e)}"
SearchErrorText == <<"Error performing search: ">>

\* the try / except around self.web_search.search(q)
ToolResult(outcome) ==
    IF WebSearchRaises(outcome) THEN SearchErrorText
    ELSE ToolContent(WebSearchSearch(outcome))

-----------------------------------------------------------------------------
(* Messages and model responses *)

Msg(role, content) ==
    [role |-> role, content |-> content, tool_calls |-> <<>>,
     tool_call_id |-> 0, name |-> ""]

\* the assistant message of a response
AssistantMsg(content, calls) ==
    [role |-> "assistant", content |-> content, tool_calls |-> calls,
     tool_call_id |-> 0, name |-> ""]

ToolMsg(id, content) ==
    [role |-> "tool", content |-> content, tool_calls |-> <<>>,
     tool_call_id |-> id, name |-> "web_search"]

NoMsg == Msg("none", NULL)

SystemMsg == Msg("system", <<"SYSTEM: graph and web search assistant">>)

\* f"Please verify this on the web: {query}"
ForcedMsg(q) == Msg("user", <<"Please verify this on the web: ">> \o q)

\* the [GRAPH CONTEXT] prompt
GraphMsg(context, q) ==
    Msg("user", <<"[GRAPH CONTEXT]:">> \o context \o <<"USER QUESTION: ">> \o q
                \o <<"Answer based on the context.">>)

RetryMsg == Msg("user", <<"The graph didn't have it. Please search the web.">>)

\* f"I cannot find information in the database. Please search the web for: {query}"
EmptyMsg(q) ==
    Msg("user", <<"I cannot find information in the database. ",
                  "Please search the web for: ">> \o q)

\* tool_call.function.arguments, by what json.loads makes of it
ArgObject(q) == [json |-> "object", query |-> q]
ArgArray == [json |-> "array", query |-> NULL]
ArgMalformed == [json |-> "malformed", query |-> NULL]

FunctionPool ==
    { [name |-> "web_search", arguments |-> ArgObject(<<"q">>)],
      [name |-> "web_search", arguments |-> ArgObject(NULL)],
      [name |-> "web_search", arguments |-> ArgMalformed],
      [name |-> "web_search", arguments |-> ArgArray],
      [name |-> "lookup", arguments |-> ArgObject(<<"q">>)] }

\* the tool_calls of a response: call k carries the identifier k
ToolCallLists ==
    { [k \in 1..Len(fs) |-> [id |-> k, function |-> fs[k]]] :
        fs \in SeqsUpTo(FunctionPool, MaxToolCalls) }

TextOk == <<"o", "k">>
\* "Xin LOI" with its diacritics, in mixed case
TextSorry == <<"X", "i", "n", " ", "L", "O^~", "I">>
\* "Khong tim thay" with its diacritics
TextNotFound ==
    <<"K", "h", "o^", "n", "g", " ", "t", "i`", "m", " ", "t", "h", "a^'", "y">>
\* "ok: khong co thong tin" with its diacritics
TextNoInfo ==
    <<"o", "k", ":", " ", "k", "h", "o^", "n", "g", " ", "c", "o'", " ",
      "t", "h", "o^", "n", "g", " ", "t", "i", "n">>

\* texts the direct graph call may answer with
ContentPool == {NULL, TextOk, TextSorry, TextNotFound, TextNoInfo}

\* texts a call of _run_tool_search may answer with
AnswerPool == {NULL, TextOk, TextSorry}

\* what the first call of _run_tool_search answers with, when it does not raise
Responses ==
    {AssistantMsg(c, <<>>) : c \in AnswerPool}
    \cup {AssistantMsg(NULL, calls) : calls \in ToolCallLists \ {<<>>}}

\* what the direct graph call answers with, when it does not raise
GraphResponses ==
    {AssistantMsg(c, <<>>) : c \in ContentPool}
    \cup {AssistantMsg(c, <<[id |-> 1, function |-> f]>>) :
            c \in {NULL, TextSorry},
            f \in { [name |-> "web_search", arguments |-> ArgObject(<<"q">>)],
                    [name |-> "lookup", arguments |-> ArgObject(<<"q">>)] }}

\* refusal_keywords
RefusalKeywords ==
    { <<"k", "h", "o^", "n", "g", " ", "t", "i`", "m", " ", "t", "h", "a^'", "y">>,
      <<"k", "h", "o^", "n", "g", " ", "c", "o'", " ",
        "t", "h", "o^", "n", "g", " ", "t", "i", "n">>,
      <<"x", "i", "n", " ", "l", "o^~", "i">> }

\* any(k in text.lower() for k in refusal_keywords)
IsRefusal(text) == \E k \in RefusalKeywords : Contains(Lower(text), k)

\* the provenance labels search returns
GraphRAG == "GraphRAG"
WebSearch == "Web Search"
AIKnowledge == "AI Knowledge"
ErrorSource == "Error"

ErrorText == <<"L", "o^~", "i", " ", "x", "u", " ", "l", "y", ".">>

Answer(text, graph_data, source) ==
    [text |-> text, graph_data |-> graph_data, source |-> source]

NoResult == Answer(NULL, EmptyGraph, "<none>")

-----------------------------------------------------------------------------
(* search: the decisions *)

\* variant: the graph-found test comes before the forced-mode test
BranchOfGraphFirst(forced, graph_data) ==
    IF graph_data.nodes # <<>> THEN "graph"
    ELSE IF forced THEN "forced"
    ELSE "empty"

\* if force_web_search: ... / if graph_data["nodes"]: ... / else: ...
BranchOf(forced, graph_data) ==
    IF forced THEN "forced"
    ELSE IF graph_data.nodes # <<>> THEN "graph"
    ELSE "empty"

\* variant: every call site returns the retrieved bundle
ReturnOfKeepsGraph(site, text, src, graph_data) == Answer(text, graph_data, src)

\* variant: the fallback returns the initial `source` instead of src
ReturnOfInitialSource(site, text, src, graph_data) ==
    IF site = "empty" THEN Answer(text, graph_data, GraphRAG)
    ELSE Answer(text, EmptyGraph, src)

\* the return statement after _run_tool_search, at each of its call sites
ReturnOf(site, text, src, graph_data) ==
    IF site = "empty" THEN Answer(text, graph_data, src)
    ELSE Answer(text, EmptyGraph, src)

\* the call sites of _run_tool_search inside the try block of search
CaughtAt(site) == site \in {"escalate", "refusal"}

\* variant: the except clause returns an empty bundle
ErrorAnswerDropsGraph(graph_data) == Answer(ErrorText, EmptyGraph, ErrorSource)

\* except Exception: return "Loi xu ly.", graph_data, "Error"
ErrorAnswer(graph_data) == Answer(ErrorText, graph_data, ErrorSource)

\* variant: the markers are looked for in the text as written, not lower-cased
GraphStepCaseSensitive(m) ==
    IF m.tool_calls # <<>> THEN "escalate"
    ELSE IF m.content = NULL THEN "error"
    ELSE IF \E k \in RefusalKeywords : Contains(m.content, k) THEN "refusal"
    ELSE "answer"

\* variant: the text is inspected before the invocations
GraphStepTextFirst(m) ==
    IF m.content = NULL THEN "error"
    ELSE IF IsRefusal(m.content) THEN "refusal"
    ELSE IF m.tool_calls # <<>> THEN "escalate"
    ELSE "answer"

\* variant: the text is returned without looking for refusal markers
GraphStepNoRefusalTest(m) ==
    IF m.tool_calls # <<>> THEN "escalate"
    ELSE IF m.content = NULL THEN "error"
    ELSE "answer"

\* variant: the refusal markers are looked for before the invocations
GraphStepRefusalFirst(m) ==
    IF m.content # NULL /\ IsRefusal(m.content) THEN "refusal"
    ELSE IF m.tool_calls # <<>> THEN "escalate"
    ELSE IF m.content = NULL THEN "error"
    ELSE "answer"

\* what search does with the direct graph response
GraphStep(m) ==
    IF m.tool_calls # <<>> THEN "escalate"
    ELSE IF m.content = NULL THEN "error"
    ELSE IF IsRefusal(m.content) THEN "refusal"
    ELSE "answer"

Call(site, tools, sent) == [site |-> site, tools |-> tools, sent |-> sent]

CurrentGraph == GraphData(graph_nodes, graph_edges)

-----------------------------------------------------------------------------
(* Initial states *)

SearchStores ==
    { [entities |-> {}, rels |-> {}],
      [entities |-> EntityPool,
       rels |-> { Rel(<<"A", "b">>, "HAS_PART", <<"a">>),
                  Rel(<<"a">>, "USES", <<"A", "b">>) }] }

\* no other call of search is in progress
NoPeer == [pc |-> "none"]

\* the local variables of a call as it starts
InitLocals ==
    /\ entities = <<>>
    /\ idx = 1
    /\ context_lines = <<>>
    /\ graph_nodes = <<>>
    /\ graph_edges = <<>>
    /\ messages = <<>>
    /\ path = "none"
    /\ sub = "none"
    /\ graph_msg = NoMsg
    /\ tool_msg = NoMsg
    /\ tc_idx = 1
    /\ final_msg = NoMsg
    /\ llm_calls = <<>>
    /\ web_calls = 0
    /\ web_log = <<>>
    /\ failed = "none"
    /\ result = NoResult

InitCommon ==
    /\ InitLocals
    /\ peer = NoPeer
    /\ me = 1

\* a call of search(query, force_web_search)
Init ==
    /\ store \in SearchStores
    /\ query \in QueryPool
    /\ force \in BOOLEAN
    /\ pc = "extract"
    /\ extract_resp = NoExtract
    /\ search_terms = <<>>
    /\ InitCommon

\* a call of _extract_search_intents(query)
InitExtract ==
    /\ store = [entities |-> {}, rels |-> {}]
    /\ query \in ExtractQueries
    /\ force = FALSE
    /\ pc = "extract"
    /\ extract_resp = NoExtract
    /\ search_terms = <<>>
    /\ InitCommon

\* a call of the lookup of _get_relevant_context with given search terms
InitRetrieve ==
    /\ store \in {st \in Stores : WellFormedStore(st)}
    /\ query = <<"a", "?">>
    /\ force = FALSE
    /\ pc = "rank"
    /\ extract_resp = NoExtract
    /\ search_terms \in TermLists
    /\ InitCommon

\* a call of the lookup on a store larger than its limits
InitRank ==
    /\ store \in RankStores
    /\ query = <<"a", "?">>
    /\ force = FALSE
    /\ pc = "rank"
    /\ extract_resp = NoExtract
    /\ search_terms \in RankTermLists
    /\ InitCommon

-----------------------------------------------------------------------------
(* _get_relevant_context *)

\* _extract_search_intents, the model call answering from `pool`
ExtractWith(pool) ==
    /\ pc = "extract"
    /\ llm_calls' = Append(llm_calls,
           Call("extract", FALSE, <<Msg("system", <<"EXTRACT">>), Msg("user", query)>>))
    /\ \E r \in pool :
          /\ extract_resp' = r
          /\ \E terms \in ExtractTerms(query, r) : search_terms' = terms
    /\ pc' = "rank"
    /\ UNCHANGED <<peer, me, final_msg, web_log, store, query, force, entities, idx,
                   context_lines, graph_nodes, graph_edges, messages, path, sub,
                   graph_msg, tool_msg, tc_idx, web_calls, failed, result>>

\* the extraction inside a whole search
ExtractIntents == ExtractWith(SearchExtractResponses)

\* the extraction alone, for every outcome of its model call
ExtractAny == ExtractWith(ExtractResponses)

\* an exception leaves search
Propagate(cause) ==
    /\ failed' = cause
    /\ pc' = "raised"
    /\ UNCHANGED result

RunRanked ==
    /\ pc = "rank"
    /\ \/ /\ Propagate("graph_store")
          /\ UNCHANGED <<entities, idx>>
       \/ /\ \E rows \in RankedRows(store, search_terms) :
                /\ entities' = rows
                /\ pc' = IF rows = <<>> THEN "branch" ELSE "expand"
          /\ idx' = 1
          /\ UNCHANGED <<failed, result>>
    /\ UNCHANGED <<peer, me, final_msg, web_log, extract_resp, store, query, force, search_terms, context_lines, graph_nodes,
                   graph_edges, messages, path, sub, graph_msg, tool_msg, tc_idx,
                   llm_calls, web_calls>>

\* variant: the loop over the rows is left after its first turn
AfterExpandStopsEarly(i, rows) == "branch"

\* where the loop over the rows goes after turn i
AfterExpand(i, rows) == IF i = Len(rows) THEN "branch" ELSE "expand"

Expand ==
    /\ pc = "expand"
    /\ \/ /\ Propagate("graph_store")
          /\ UNCHANGED <<idx, context_lines, graph_nodes, graph_edges>>
       \/ /\ \E rows \in RelRows(store, entities[idx].name) :
                LET acc == ExpandEntity(store, entities[idx], rows,
                               [lines |-> context_lines, nodes |-> graph_nodes,
                                edges |-> graph_edges])
                IN  /\ context_lines' = acc.lines
                    /\ graph_nodes' = acc.nodes
                    /\ graph_edges' = acc.edges
          /\ idx' = idx + 1
          /\ pc' = AfterExpand(idx, entities)
          /\ UNCHANGED <<failed, result>>
    /\ UNCHANGED <<peer, me, final_msg, web_log, extract_resp, store, query, force, search_terms, entities, messages, path,
                   sub, graph_msg, tool_msg, tc_idx, llm_calls, web_calls>>

-----------------------------------------------------------------------------
(* search *)

Branch ==
    /\ pc = "branch"
    /\ path' = BranchOf(force, CurrentGraph)
    /\ messages' =
         <<SystemMsg,
           CASE path' = "forced" -> ForcedMsg(query)
             [] path' = "graph" -> GraphMsg(ContextText(context_lines), query)
             [] OTHER -> EmptyMsg(query)>>
    /\ sub' = IF path' = "graph" THEN "none" ELSE path'
    /\ pc' = IF path' = "graph" THEN "graph_call" ELSE "tool_call"
    /\ UNCHANGED <<peer, me, final_msg, web_log, extract_resp, store, query, force, search_terms, entities, idx, context_lines,
                   graph_nodes, graph_edges, graph_msg, tool_msg, tc_idx,
                   llm_calls, web_calls, failed, result>>

\* _run_tool_search returns (text, src) to its call site
Return(text, src) ==
    /\ result' = ReturnOf(sub, text, src, CurrentGraph)
    /\ pc' = "done"
    /\ UNCHANGED failed

\* an exception raised inside _run_tool_search
Raise(cause) ==
    /\ failed' = cause
    /\ IF CaughtAt(sub)
       THEN result' = ErrorAnswer(CurrentGraph) /\ pc' = "done"
       ELSE result' = result /\ pc' = "raised"

\* variant: the follow-up takes the place of the graph prompt
RefusalFollowUpReplaces(ms, m) == <<ms[1], m, RetryMsg>>

\* messages.append(msg); messages.append({"role": "user", ...})
RefusalFollowUp(ms, m) == ms \o <<m, RetryMsg>>

GraphCallWith(pool) ==
    /\ pc = "graph_call"
    /\ llm_calls' = Append(llm_calls, Call("graph", TRUE, messages))
    /\ \/ /\ failed' = "graph_llm"
          /\ result' = ErrorAnswer(CurrentGraph)
          /\ pc' = "done"
          /\ UNCHANGED <<graph_msg, messages, sub>>
       \/ \E m \in pool :
            /\ graph_msg' = m
            /\ CASE GraphStep(m) = "escalate" ->
                      /\ sub' = "escalate"
                      /\ pc' = "tool_call"
                      /\ UNCHANGED <<messages, failed, result>>
                 [] GraphStep(m) = "error" ->
                      /\ failed' = "content_none"
                      /\ result' = ErrorAnswer(CurrentGraph)
                      /\ pc' = "done"
                      /\ UNCHANGED <<messages, sub>>
                 [] GraphStep(m) = "refusal" ->
                      /\ messages' = RefusalFollowUp(messages, m)
                      /\ sub' = "refusal"
                      /\ pc' = "tool_call"
                      /\ UNCHANGED <<failed, result>>
                 [] OTHER ->
                      /\ result' = Answer(m.content, CurrentGraph, GraphRAG)
                      /\ pc' = "done"
                      /\ UNCHANGED <<messages, sub, failed>>
    /\ UNCHANGED <<peer, me, final_msg, web_log, extract_resp, store, query, force, search_terms, entities, idx, context_lines,
                   graph_nodes, graph_edges, path, tool_msg, tc_idx, web_calls>>

\* the direct graph call of a whole search
GraphCall == GraphCallWith(GraphResponses)

-----------------------------------------------------------------------------
(* _run_tool_search *)

ToolFirstCallWith(pool) ==
    /\ pc = "tool_call"
    /\ llm_calls' = Append(llm_calls, Call("tool", TRUE, messages))
    /\ \/ \E m \in pool :
            /\ tool_msg' = m
            /\ IF m.tool_calls = <<>>
               THEN Return(m.content, AIKnowledge) /\ UNCHANGED messages
               ELSE /\ messages' = Append(messages, m)
                    /\ pc' = "tool_loop"
                    /\ UNCHANGED <<failed, result>>
       \/ /\ Raise("tool_llm")
          /\ UNCHANGED <<tool_msg, messages>>
    /\ tc_idx' = 1
    /\ UNCHANGED <<peer, me, final_msg, web_log, extract_resp, store, query, force, search_terms, entities, idx, context_lines,
                   graph_nodes, graph_edges, path, sub, graph_msg, web_calls>>

ToolFirstCall == ToolFirstCallWith(Responses)

\* variant: after the loop the model is asked again with the tool offered
NextToolPcAsksAgain(k, calls) == IF k = Len(calls) THEN "tool_call" ELSE "tool_loop"

\* where _run_tool_search goes after turn k of the loop over `calls`
NextToolPc(k, calls) == IF k = Len(calls) THEN "final_call" ELSE "tool_loop"

\* one turn of `for tool_call in msg.tool_calls`
ToolLoopStepWith(outcomes) ==
    /\ pc = "tool_loop"
    /\ LET tc == tool_msg.tool_calls[tc_idx]
           args == tc.function.arguments
           after == NextToolPc(tc_idx, tool_msg.tool_calls)
       IN  IF tc.function.name # "web_search"
           THEN /\ pc' = after
                /\ tc_idx' = tc_idx + 1
                /\ UNCHANGED <<messages, web_calls, web_log, failed, result>>
           ELSE IF args.json # "object"
           THEN /\ Raise("tool_args")
                /\ UNCHANGED <<messages, web_calls, web_log, tc_idx>>
           ELSE \E o \in outcomes :
                  /\ web_calls' = web_calls + 1
                  /\ web_log' = Append(web_log, [id |-> tc.id, raised |-> o.raised])
                  /\ messages' = Append(messages,
                         ToolMsg(tc.id, ToolResult(o)))
                  /\ pc' = after
                  /\ tc_idx' = tc_idx + 1
                  /\ UNCHANGED <<failed, result>>
    /\ UNCHANGED <<peer, me, final_msg, extract_resp, store, query, force, search_terms, entities, idx, context_lines,
                   graph_nodes, graph_edges, path, sub, graph_msg, tool_msg,
                   llm_calls>>

ToolLoopStep == ToolLoopStepWith(DdgsOutcomes)

FinalCallWith(answers) ==
    /\ pc = "final_call"
    /\ llm_calls' = Append(llm_calls, Call("final", FALSE, messages))
    /\ \/ Raise("final_llm") /\ UNCHANGED final_msg
       \/ \E c \in answers :
            /\ final_msg' = AssistantMsg(c, <<>>)
            /\ Return(c, WebSearch)
    /\ UNCHANGED <<peer, me, web_log, extract_resp, store, query, force, search_terms,
                   entities, idx, context_lines, graph_nodes, graph_edges,
                   messages, path, sub, graph_msg, tool_msg, tc_idx, web_calls>>

FinalCall == FinalCallWith(AnswerPool)

-----------------------------------------------------------------------------
(* Two calls of search on one engine *)

\* the local variables of the call of search in progress
Locals ==
    [query |-> query,
     force |-> force,
     pc |-> pc,
     extract_resp |-> extract_resp,
     search_terms |-> search_terms,
     entities |-> entities,
     idx |-> idx,
     context_lines |-> context_lines,
     graph_nodes |-> graph_nodes,
     graph_edges |-> graph_edges,
     messages |-> messages,
     path |-> path,
     sub |-> sub,
     graph_msg |-> graph_msg,
     tool_msg |-> tool_msg,
     tc_idx |-> tc_idx,
     final_msg |-> final_msg,
     llm_calls |-> llm_calls,
     web_calls |-> web_calls,
     web_log |-> web_log,
     failed |-> failed,
     result |-> result]

\* the local variables of a call of search(q, f) as it starts
StartLocals(q, f) ==
    [query |-> q, force |-> f, pc |-> "extract", extract_resp |-> NoExtract,
     search_terms |-> <<>>, entities |-> <<>>, idx |-> 1,
     context_lines |-> <<>>, graph_nodes |-> <<>>, graph_edges |-> <<>>,
     messages |-> <<>>, path |-> "none", sub |-> "none", graph_msg |-> NoMsg,
     tool_msg |-> NoMsg, tc_idx |-> 1, final_msg |-> NoMsg, llm_calls |-> <<>>,
     web_calls |-> 0, web_log |-> <<>>, failed |-> "none", result |-> NoResult]

\* variant: the conversation is kept on the engine, so a call that resumes
\* finds it as the other call left it
ConversationOnEngine(mine, theirs) == mine

\* messages is a local list of each call of search: a call that resumes
\* finds its own
ConversationAfterSwitch(mine, theirs) == theirs

\* the call in progress waits in an external call and the other call runs on;
\* the engine holds no variable a call writes, the store is only read
Switch ==
    /\ peer # NoPeer
    /\ peer' = Locals
    /\ me' = 3 - me
    /\ messages' = ConversationAfterSwitch(messages, peer.messages)
    /\ query' = peer.query
    /\ force' = peer.force
    /\ pc' = peer.pc
    /\ extract_resp' = peer.extract_resp
    /\ search_terms' = peer.search_terms
    /\ entities' = peer.entities
    /\ idx' = peer.idx
    /\ context_lines' = peer.context_lines
    /\ graph_nodes' = peer.graph_nodes
    /\ graph_edges' = peer.graph_edges
    /\ path' = peer.path
    /\ sub' = peer.sub
    /\ graph_msg' = peer.graph_msg
    /\ tool_msg' = peer.tool_msg
    /\ tc_idx' = peer.tc_idx
    /\ final_msg' = peer.final_msg
    /\ llm_calls' = peer.llm_calls
    /\ web_calls' = peer.web_calls
    /\ web_log' = peer.web_log
    /\ failed' = peer.failed
    /\ result' = peer.result
    /\ UNCHANGED store

\* the collaborator answers drawn while two calls run
TwoExtractResponses ==
    { ExtractResp("list", << <<"a">> >>, <<>>),
      ExtractResp("list", << <<"A", "B", " ", "x">> >>, <<>>),
      ExtractResp("raise", <<>>, <<>>) }

TwoGraphResponses == { AssistantMsg(TextOk, <<>>), AssistantMsg(TextSorry, <<>>) }

TwoResponses ==
    { AssistantMsg(TextOk, <<>>),
      AssistantMsg(NULL, << [id |-> 1,
                             function |-> [name |-> "web_search",
                                           arguments |-> ArgObject(<<"q">>)]] >>) }

TwoDdgsOutcomes == { o \in DdgsOutcomes : ~o.raised /\ o.hits # <<>> }

TwoAnswers == { TextOk }

\* search("a?") and another search, forced or not, on one store
InitTwo ==
    /\ store \in SearchStores
    /\ query = <<"a", "?">>
    /\ force = FALSE
    /\ pc = "extract"
    /\ extract_resp = NoExtract
    /\ search_terms = <<>>
    /\ InitLocals
    /\ peer \in {StartLocals(<<"a", "b", "a", "b", " ", "x", "?">>, f) : f \in BOOLEAN}
    /\ me = 1

-----------------------------------------------------------------------------
(* Specifications *)

\* the lookup and expansion alone
NextRetrieve == RunRanked \/ Expand

SpecRetrieve == InitRetrieve /\ [][NextRetrieve]_vars

SpecRank == InitRank /\ [][NextRetrieve]_vars

SpecExtract == InitExtract /\ [][ExtractAny]_vars

\* two calls of search, interleaved at their external calls
NextTwo ==
    \/ ExtractWith(TwoExtractResponses)
    \/ RunRanked
    \/ Expand
    \/ Branch
    \/ GraphCallWith(TwoGraphResponses)
    \/ ToolFirstCallWith(TwoResponses)
    \/ ToolLoopStepWith(TwoDdgsOutcomes)
    \/ FinalCallWith(TwoAnswers)
    \/ Switch

SpecTwo == InitTwo /\ [][NextTwo]_vars

\* a whole call of search
Next ==
    \/ ExtractIntents
    \/ RunRanked
    \/ Expand
    \/ Branch
    \/ GraphCall
    \/ ToolFirstCall
    \/ ToolLoopStep
    \/ FinalCall

Spec == Init /\ [][Next]_vars

-----------------------------------------------------------------------------
(* Properties of search *)

Done == pc = "done"

\* search took the refusal branch: a direct graph response without invocation
\* whose text holds a refusal marker in some letter case
RefusedByGraph ==
    /\ path = "graph"
    /\ graph_msg.role = "assistant"
    /\ graph_msg.tool_calls = <<>>
    /\ graph_msg.content # NULL
    /\ \E k \in RefusalKeywords : Contains(Lower(graph_msg.content), k)

\* the direct graph response invoked the capability
EscalatedByGraph ==
    /\ path = "graph"
    /\ graph_msg.role = "assistant"
    /\ graph_msg.tool_calls # <<>>

\* the answerer's own outcome, as search must pass it on: its text and label
\* with an empty bundle, or the Error result if it raised inside the try block
AnswererOutcome ==
    \/ /\ failed = "none"
       /\ tool_msg.tool_calls = <<>>
       /\ result = Answer(tool_msg.content, EmptyGraph, AIKnowledge)
    \/ /\ failed = "none"
       /\ tool_msg.tool_calls # <<>>
       /\ result = Answer(final_msg.content, EmptyGraph, WebSearch)
    \/ /\ failed \in {"tool_llm", "tool_args", "final_llm"}
       /\ result = Answer(ErrorText, CurrentGraph, ErrorSource)

\* C1: every result of a forced search has no nodes and no edges and carries
\* the provenance Web Search or AI Knowledge, whatever the lookup found.
C1_ForcedResultIsEmpty ==
    (Done /\ force) =>
        /\ result.graph_data.nodes = <<>>
        /\ result.graph_data.edges = <<>>
        /\ result.source \in {WebSearch, AIKnowledge}

\* a forced search has returned although the lookup found nodes and edges
C1_Witness ==
    /\ Done /\ force
    /\ graph_nodes # <<>> /\ graph_edges # <<>>
    /\ result.source = AIKnowledge

\* C2: no exception leaves search, and every call that ended returned a triple
\* with one of the four provenance labels and a text.
C2_NoExceptionLeavesSearch ==
    /\ pc # "raised"
    /\ Done => /\ result.source \in {GraphRAG, WebSearch, AIKnowledge, ErrorSource}
               /\ result.text # NULL

\* C3 as stated: after a refusal, the result is Web Search with an empty bundle.
C3_RefusalGivesWebSearch ==
    (Done /\ RefusedByGraph) =>
        /\ result.source = WebSearch
        /\ result.graph_data = EmptyGraph

\* C3 amended: after a refusal (any letter case) the result is never GraphRAG;
\* it is the answerer's outcome: AI Knowledge or Web Search with an empty
\* bundle, or Error with the retrieved bundle when the answerer raised.
C3_RefusalGivesAnswererOutcome ==
    (Done /\ RefusedByGraph) =>
        /\ result.source # GraphRAG
        /\ sub = "refusal"
        /\ AnswererOutcome

\* a refusal written in mixed case ended as an answer from the model alone
C3_Witness ==
    /\ Done /\ RefusedByGraph
    /\ graph_msg.content = TextSorry
    /\ result.source = AIKnowledge
    /\ graph_nodes # <<>>

\* C4 as stated: after an invocation in the direct graph response, the result
\* is Web Search with an empty bundle.
C4_EscalationGivesWebSearch ==
    (Done /\ EscalatedByGraph) =>
        /\ result.source = WebSearch
        /\ result.graph_data = EmptyGraph

\* C4 amended: after an invocation in the direct graph response, search returns
\* the answerer's outcome: its text with its label (Web Search or AI Knowledge)
\* and an empty bundle, or Error with the retrieved bundle when it raised.
C4_EscalationGivesAnswererOutcome ==
    (Done /\ EscalatedByGraph) =>
        /\ sub = "escalate"
        /\ result.source # GraphRAG
        /\ AnswererOutcome

\* the direct response invoked web_search, the answerer then searched the web
C4_Witness ==
    /\ Done /\ EscalatedByGraph
    /\ graph_nodes # <<>>
    /\ web_calls > 0
    /\ result.source = WebSearch
    /\ result.graph_data = EmptyGraph

\* C5: with no node retrieved and no forcing, the result has the answerer's
\* label, Web Search or AI Knowledge, and the empty bundle that was retrieved.
C5_EmptyGraphFallsBack ==
    (Done /\ ~force /\ graph_nodes = <<>>) =>
        /\ result.source \in {WebSearch, AIKnowledge}
        /\ result.source = (IF tool_msg.tool_calls = <<>> THEN AIKnowledge
                            ELSE WebSearch)
        /\ result.graph_data = CurrentGraph
        /\ result.graph_data.nodes = <<>>
        /\ result.graph_data.edges = <<>>

\* the store held entities, none matched, and the web search answered
C5_Witness ==
    /\ Done /\ ~force /\ graph_nodes = <<>>
    /\ store.entities # {}
    /\ search_terms # <<>>
    /\ result.source = WebSearch

\* C6 as stated: the Error result comes from a failure of the direct graph
\* call and from nothing else.
C6_ErrorOnlyFromGraphCall ==
    (Done /\ result.source = ErrorSource) => failed = "graph_llm"

\* C6 amended: a failure of the direct graph call gives the fixed message with
\* provenance Error and the bundle as retrieved; Error is returned only on the
\* graph-found path, for an exception raised inside its try block (the direct
\* call, a response without text, or the answerer run from it), always with
\* the fixed message and the bundle as retrieved.
C6_ErrorFromTryBlock ==
    /\ failed = "graph_llm" =>
          /\ Done /\ ~force /\ graph_nodes # <<>>
          /\ result = Answer(ErrorText, CurrentGraph, ErrorSource)
    /\ (Done /\ result.source = ErrorSource) =>
          /\ path = "graph" /\ ~force /\ graph_nodes # <<>>
          /\ failed \in {"graph_llm", "content_none", "tool_llm", "tool_args",
                         "final_llm"}
          /\ failed \in {"tool_llm", "tool_args", "final_llm"}
                => sub \in {"escalate", "refusal"}
          /\ result = Answer(ErrorText, CurrentGraph, ErrorSource)
    /\ (Done /\ failed # "none") => result.source = ErrorSource

\* the direct graph call raised after a bundle with an edge was retrieved
C6_Witness ==
    /\ Done /\ failed = "graph_llm"
    /\ graph_edges # <<>>
    /\ result.graph_data.edges = graph_edges
    /\ result.source = ErrorSource

\* the first user message each branch builds
BranchMessage(p) ==
    CASE p = "forced" -> ForcedMsg(query)
      [] p = "graph" -> GraphMsg(ContextText(context_lines), query)
      [] OTHER -> EmptyMsg(query)

\* C7: forced mode wins over graph-found, graph-found over graph-empty, and
\* one branch runs: its conversation is the one built, the direct graph call
\* is made on the graph-found branch only, the others go to the answerer.
C7_BranchPrecedence ==
    pc \notin {"extract", "rank", "expand", "branch", "raised"} =>
        /\ path = (IF force THEN "forced"
                   ELSE IF Len(graph_nodes) >= 1 THEN "graph" ELSE "empty")
        /\ Len(messages) >= 2 /\ messages[2] = BranchMessage(path)
        /\ Cardinality({i \in 1..Len(llm_calls) : llm_calls[i].site = "graph"})
              = (IF path = "graph" /\ pc # "graph_call" THEN 1 ELSE 0)
        /\ path \in {"forced", "empty"} => sub = path
        /\ path = "graph" => sub \in {"none", "escalate", "refusal"}

\* forced mode overrode a bundle with nodes, up to a returned web answer
C7_Witness ==
    /\ Done /\ force /\ Len(graph_nodes) >= 2
    /\ path = "forced"
    /\ result.source = WebSearch
    /\ web_calls > 0

-----------------------------------------------------------------------------
(* Properties of the lookup *)

Retrieved == pc = "branch"

\* no name and no description of the store contains a term, letter case aside
NoTermOccurs(st, terms) ==
    \A e \in st.entities : \A i \in 1..Len(terms) :
        /\ ~Contains(Lower(e.name), Lower(terms[i]))
        /\ e.description # NULL
              => ~Contains(Lower(e.description), Lower(terms[i]))

\* C8: when no entity's name or description contains a keyword, the lookup
\* returns no node, no edge and an empty context text.
C8_RetrievalMiss ==
    (Retrieved /\ NoTermOccurs(store, search_terms)) =>
        /\ graph_nodes = <<>>
        /\ graph_edges = <<>>
        /\ ContextText(context_lines) = <<>>

\* a store with entities and relations, keywords given, none occurring
C8_Witness ==
    /\ Retrieved
    /\ NoTermOccurs(store, search_terms)
    /\ search_terms # <<>>
    /\ Cardinality(store.entities) >= 2
    /\ store.rels # {}

NodeIds == {graph_nodes[i].id : i \in 1..Len(graph_nodes)}

\* C9: the source and the target of every display edge are ids of nodes of
\* the bundle, after each entity expanded and in the bundle returned.
C9_EdgeEndpointsAreNodes ==
    \A i \in 1..Len(graph_edges) :
        /\ graph_edges[i].source \in NodeIds
        /\ graph_edges[i].target \in NodeIds

\* a returned bundle with an edge to a neighbour that is no top match
C9_Witness ==
    /\ Retrieved
    /\ \E i \in 1..Len(graph_edges) :
          /\ graph_edges[i].target # graph_edges[i].source
          /\ \A j \in 1..Len(entities) : entities[j].name # graph_edges[i].target

\* C10: no two nodes of a bundle carry the same name.
C10_NodeNamesDistinct ==
    \A i, j \in 1..Len(graph_nodes) :
        i # j => graph_nodes[i].id # graph_nodes[j].id

\* an entity met first as a neighbour and later as a top match, and another
\* met as the neighbour of two edges, in a returned bundle
C10_Witness ==
    /\ Retrieved
    /\ \E i, j \in 1..Len(entities) :
          /\ i < j
          /\ \E k \in 1..Len(graph_edges) :
                /\ graph_edges[k].source = entities[i].name
                /\ graph_edges[k].target = entities[j].name
    /\ \E k, l \in 1..Len(graph_edges) :
          k # l /\ graph_edges[k].target = graph_edges[l].target

-----------------------------------------------------------------------------
(* The score of the ranked lookup *)

\* the lookup has answered
Ranked == pc \in {"expand", "branch"}

\* C11: the score of an entity against a list of keywords is the sum of its
\* scores against the parts of the list, however the list is cut in two, a
\* keyword given twice counting twice; one keyword contributes 10, 5, 2 or 0.
C11_ScoreAdditive ==
    \A e \in store.entities :
        /\ \A k \in 0..Len(search_terms) :
              Score(e, search_terms)
                = Score(e, SubSeq(search_terms, 1, k))
                  + Score(e, SubSeq(search_terms, k + 1, Len(search_terms)))
        /\ \A i \in 1..Len(search_terms) :
              Score(e, <<search_terms[i]>>) \in {10, 5, 2, 0}

\* the lookup has kept an entity that two different keywords score 10 and 5
C11_Witness ==
    /\ Ranked
    /\ Len(search_terms) = 2
    /\ \E i \in 1..Len(entities) :
          /\ Score(entities[i], <<search_terms[1]>>) = 10
          /\ Score(entities[i], <<search_terms[2]>>) = 5
          /\ Score(entities[i], search_terms) = 15

ExactMatch(e, t) == Lower(e.name) = Lower(t)
NameMatch(e, t) == Contains(Lower(e.name), Lower(t))
DescMatch(e, t) == e.description # NULL /\ Contains(Lower(e.description), Lower(t))

\* C12: for one keyword an exact name match, letter case aside, scores 10, a
\* name containing it 5, a description containing it 2, the first that applies
\* deciding alone; so an exact match ranks before a partial one and a partial
\* one before a description-only one in the rows of a one-keyword lookup.
C12_MatchPriority ==
    /\ \A e \in store.entities : \A i \in 1..Len(search_terms) :
          LET t == search_terms[i]
              c == Score(e, <<t>>)
          IN  /\ ExactMatch(e, t) => c = 10
              /\ (~ExactMatch(e, t) /\ NameMatch(e, t)) => c = 5
              /\ (~NameMatch(e, t) /\ DescMatch(e, t)) => c = 2
              /\ (~NameMatch(e, t) /\ ~DescMatch(e, t)) => c = 0
    /\ (Ranked /\ Len(search_terms) = 1) =>
          \A i, j \in 1..Len(entities) :
              LET t == search_terms[1] IN
              /\ (ExactMatch(entities[i], t) /\ ~ExactMatch(entities[j], t)) => i < j
              /\ (NameMatch(entities[i], t) /\ ~NameMatch(entities[j], t)) => i < j

\* a one-keyword lookup whose rows are an exact match, which meets the
\* containment test too, then a partial match, then a description-only match
C12_Witness ==
    /\ Ranked
    /\ Len(search_terms) = 1
    /\ Len(entities) >= 3
    /\ ExactMatch(entities[1], search_terms[1])
    /\ NameMatch(entities[1], search_terms[1])
    /\ NameMatch(entities[2], search_terms[1])
    /\ ~ExactMatch(entities[2], search_terms[1])
    /\ DescMatch(entities[3], search_terms[1])
    /\ ~NameMatch(entities[3], search_terms[1])

KeptNames == {entities[i].name : i \in 1..Len(entities)}

EdgesOf(n) == {k \in 1..Len(graph_edges) : graph_edges[k].source = n}

\* C13: the lookup keeps at most 5 entities, each of score above 0, none left
\* out scoring more than one kept, and leaves a matching entity out only when
\* 5 are kept; each kept entity gets at most 5 edges, so a bundle has at most
\* 25 edges and 30 nodes.
C13_LimitsHold ==
    Ranked =>
        /\ Len(entities) <= TopLimit
        /\ \A i \in 1..Len(entities) :
              /\ entities[i] \in store.entities
              /\ Score(entities[i], search_terms) > 0
              /\ \A e \in store.entities :
                    e.name \notin KeptNames
                       => Score(e, search_terms) <= Score(entities[i], search_terms)
        /\ (\E e \in store.entities :
                e.name \notin KeptNames /\ Score(e, search_terms) > 0)
              => Len(entities) = TopLimit
        /\ \A n \in KeptNames : Cardinality(EdgesOf(n)) <= RelLimit
        /\ \A k \in 1..Len(graph_edges) : graph_edges[k].source \in KeptNames
        /\ Len(graph_edges) <= TopLimit * RelLimit
        /\ Len(graph_nodes) <= TopLimit + TopLimit * RelLimit

\* a returned bundle of 5 entities with a matching entity left out, one of
\* the 5 having 6 relations in the store and 5 edges in the bundle
C13_Witness ==
    /\ Retrieved
    /\ Len(entities) = TopLimit
    /\ \E e \in store.entities :
          e.name \notin KeptNames /\ Score(e, search_terms) > 0
    /\ \E n \in KeptNames :
          /\ Cardinality({r \in store.rels : r.source = n}) > RelLimit
          /\ Cardinality(EdgesOf(n)) = RelLimit

-----------------------------------------------------------------------------
(* Intent extraction *)

\* _extract_search_intents has returned
Extracted == extract_resp # NoExtract

\* the outcomes the claim calls errors
ErrorKinds ==
    {"raise", "not_json", "not_object", "missing", "null", "number", "string",
     "bad_items"}

\* C14 as stated: extraction never raises, and for an unreachable model,
\* content that is no JSON, a missing keywords field and a wrongly typed
\* keywords field it returns the fallback keywords of the question.
C14_ErrorsGiveFallback ==
    Extracted =>
        /\ pc # "extract"
        /\ pc = "rank" => failed = "none"
        /\ extract_resp.kind \in ErrorKinds => search_terms = NaiveKeywords(query)

\* the distinct characters of t that are not a space, in any order
IsCharsOf(terms, t) ==
    /\ Range(terms) = {<<t[i]>> : i \in {j \in 1..Len(t) : t[j] # " "}}
    /\ \A i, j \in 1..Len(terms) : i # j => terms[i] # terms[j]

\* C14: extraction never raises; when the model call or the handling of its
\* content raises it returns the fallback keywords of the question, each a
\* run of more than 3 characters of the question without its punctuation; an
\* object without keywords field gives no keyword and a keywords string gives
\* its characters.
C14_RaisedErrorsGiveFallback ==
    Extracted =>
        /\ pc # "extract"
        /\ pc = "rank" => failed = "none"
        /\ ExtractRaises(extract_resp) =>
              /\ search_terms = NaiveKeywords(query)
              /\ \A i \in 1..Len(search_terms) :
                    /\ Len(search_terms[i]) > 3
                    /\ Contains(StripPunct(query), search_terms[i])
                    /\ \A k \in 1..Len(search_terms[i]) :
                          ~IsSpace(search_terms[i][k]) /\ ~IsPunct(search_terms[i][k])
        /\ extract_resp.kind = "missing" => search_terms = <<>>
        /\ extract_resp.kind = "string" => IsCharsOf(search_terms, extract_resp.text)

\* content that is no JSON, for a question whose fallback keyword is a word
\* freed of its punctuation
C14_Witness ==
    /\ Extracted
    /\ extract_resp.kind = "not_json"
    /\ search_terms = << <<"a", "b", "c", "d">> >>
    /\ query # StripPunct(query)

\* C15: the keywords extraction returns are pairwise different, whichever way
\* they were obtained.
C15_NoDuplicateKeywords ==
    Extracted =>
        \A i, j \in 1..Len(search_terms) : i # j => search_terms[i] # search_terms[j]

-----------------------------------------------------------------------------
(* _run_tool_search: invocations and their results *)

FinalCalls == {i \in 1..Len(llm_calls) : llm_calls[i].site = "final"}

ToolCalls == {i \in 1..Len(llm_calls) : llm_calls[i].site = "tool"}

\* C16: the conversation sent for the final answer ends with the assistant
\* message that invoked the capability followed by one tool-result message
\* per invocation of that message, in their order, each with the identifier
\* of its invocation.
C16_EveryInvocationAnswered ==
    \A i \in FinalCalls :
        LET sent == llm_calls[i].sent
            n == Len(tool_msg.tool_calls)
            base == Len(sent) - n - 1
        IN  /\ n > 0
            /\ base >= 2
            /\ sent[base + 1] = tool_msg
            /\ \A k \in 1..n :
                  /\ sent[base + 1 + k].role = "tool"
                  /\ sent[base + 1 + k].tool_call_id = tool_msg.tool_calls[k].id

\* C17: a web search that fails while an invocation is executed ends no call:
\* a tool-result message with an error text answers that invocation, the
\* later invocations are processed and the final call is made.
C17_SearchFailureGivesErrorText ==
    \A i \in 1..Len(web_log) :
        web_log[i].raised =>
            /\ failed \in {"none", "tool_args", "final_llm"}
            /\ \E k \in 1..Len(messages) :
                  /\ messages[k].role = "tool"
                  /\ messages[k].tool_call_id = web_log[i].id
                  /\ messages[k].content = SearchErrorText
            /\ (Done /\ failed = "none") => FinalCalls # {}

-----------------------------------------------------------------------------
(* _run_tool_search: termination *)

Terminal == pc \in {"done", "raised"}

\* how far a call of search has come
Stage(p) ==
    CASE p = "extract" -> 0
      [] p = "rank" -> 1
      [] p = "expand" -> 2
      [] p = "branch" -> 3
      [] p = "graph_call" -> 4
      [] p = "tool_call" -> 5
      [] p = "tool_loop" -> 6
      [] p = "final_call" -> 7
      [] OTHER -> 8

\* the answerer makes one call with the tool offered and, only after an
\* invocation, one call without it; the calls and searches of a query are
\* bounded and no run stops before a terminal state
AnswererBounded ==
    /\ Cardinality(ToolCalls) <= 1
    /\ Cardinality(FinalCalls) <= 1
    /\ \A i \in ToolCalls : llm_calls[i].tools
    /\ \A i \in FinalCalls :
          /\ ~llm_calls[i].tools
          /\ tool_msg.tool_calls # <<>>
          /\ \E j \in ToolCalls : j < i
    /\ (tool_msg.role = "assistant" /\ tool_msg.tool_calls = <<>>) =>
          /\ Done
          /\ FinalCalls = {}
          /\ web_calls = 0
          /\ result.text = tool_msg.content
          /\ result.source = AIKnowledge
    /\ (Done /\ FinalCalls # {} /\ failed = "none") =>
          /\ result.text = final_msg.content
          /\ result.source = WebSearch
    /\ Len(llm_calls) <= 4
    /\ web_calls <= Len(tool_msg.tool_calls)
    /\ idx <= Len(entities) + 1
    /\ tc_idx <= Len(tool_msg.tool_calls) + 1
    /\ ~Terminal => ENABLED Next

\* every step brings the call nearer to its end: a later stage, or the next
\* turn of the loop it is in
StepAdvances ==
    \/ Stage(pc') > Stage(pc)
    \/ pc' = pc /\ pc = "expand" /\ idx' = idx + 1
    \/ pc' = pc /\ pc = "tool_loop" /\ tc_idx' = tc_idx + 1

\* C18: a run of the answerer makes at most two model calls, the first with
\* the capability offered and a second without it only after an invocation,
\* whose text is returned as WebSearch; without invocation the first text is
\* returned as AIKnowledge and no web search runs; a query makes at most 4
\* model calls, every step advances it and it stops only in a terminal state.
C18_AnswererTerminates == []AnswererBounded /\ [][StepAdvances]_vars

\* a query that ended after both calls of the answerer and two web searches
C18_Witness ==
    /\ Done
    /\ failed = "none"
    /\ ToolCalls # {} /\ FinalCalls # {}
    /\ web_calls = 2
    /\ result.source = WebSearch

-----------------------------------------------------------------------------
(* search: the order of its steps *)

\* search is past _get_relevant_context
Answering == pc \in {"graph_call", "tool_call", "tool_loop", "final_call", "done"}

\* the messages a forced query may hold: the system prompt, the forced
\* prompt on the question, the response that invoked the tool, tool results
ForcedConversation(ms) ==
    /\ Len(ms) >= 2
    /\ ms[1] = SystemMsg
    /\ ms[2] = ForcedMsg(query)
    /\ Len(ms) >= 3 => ms[3] = tool_msg
    /\ \A k \in 4..Len(ms) :
          \E o \in DdgsOutcomes : ms[k] = ToolMsg(ms[k].tool_call_id, ToolResult(o))

\* C19: in forced mode too, extraction and the whole lookup come before any
\* answering model call and any web search; in forced mode neither the
\* conversation sent nor the result depends on what the lookup retrieved.
C19_RetrievalBeforeAnswering ==
    /\ \A i \in 1..Len(llm_calls) : (llm_calls[i].site = "extract") <=> (i = 1)
    /\ ~Answering /\ pc # "raised" =>
          /\ Len(llm_calls) <= 1
          /\ web_calls = 0
          /\ messages = <<>>
    /\ (Len(llm_calls) > 1 \/ web_calls > 0 \/ Answering) =>
          /\ Extracted
          /\ entities \in RankedRows(store, search_terms)
          /\ idx = Len(entities) + 1 \/ entities = <<>>
    /\ (force /\ Answering) =>
          /\ ForcedConversation(messages)
          /\ \A i \in 2..Len(llm_calls) :
                /\ llm_calls[i].site \in {"tool", "final"}
                /\ ForcedConversation(llm_calls[i].sent)
          /\ Done =>
                /\ result.graph_data = EmptyGraph
                /\ \/ result = Answer(tool_msg.content, EmptyGraph, AIKnowledge)
                   \/ result = Answer(final_msg.content, EmptyGraph, WebSearch)

\* a forced query that ended after a web search, its lookup having kept two
\* entities and built context lines, nodes and an edge
C19_Witness ==
    /\ force
    /\ Done
    /\ web_calls > 0
    /\ Len(entities) >= 2
    /\ context_lines # <<>>
    /\ graph_nodes # <<>>
    /\ graph_edges # <<>>

\* C20: a direct graph response that invokes the capability is escalated, its
\* text left unread: with a refusal marker in that text too, neither the
\* response nor the retry instruction is appended before the answerer runs.
C20_InvocationCheckFirst ==
    EscalatedByGraph =>
        /\ sub = "escalate"
        /\ Len(messages) >= 2
        /\ messages[2] = GraphMsg(ContextText(context_lines), query)
        /\ \A k \in 1..Len(messages) : messages[k] # RetryMsg
        /\ \A i \in ToolCalls :
              llm_calls[i].sent
                = <<SystemMsg, GraphMsg(ContextText(context_lines), query)>>
        /\ Len(messages) >= 3 => messages[3] = tool_msg

\* a direct graph response with an invocation and a refusal text, after the
\* answerer has been asked
C20_Witness ==
    /\ EscalatedByGraph
    /\ graph_msg.content # NULL
    /\ IsRefusal(graph_msg.content)
    /\ ToolCalls # {}
    /\ Done

-----------------------------------------------------------------------------
(* The conversation of a query *)

IsPrefix(s, t) == Len(s) <= Len(t) /\ SubSeq(t, 1, Len(s)) = s

\* the model calls made with the conversation of the query
AnsweringCalls == {i \in 1..Len(llm_calls) : llm_calls[i].site # "extract"}

\* what every earlier call sent starts what every later call sent, and what
\* the last call sent starts the conversation as it is now
SentArePrefixes ==
    /\ \A i, j \in AnsweringCalls :
          i < j => IsPrefix(llm_calls[i].sent, llm_calls[j].sent)
    /\ \A i \in AnsweringCalls : IsPrefix(llm_calls[i].sent, messages)

\* C21: a step of search or of the answerer only adds messages at the end of
\* the conversation, so what a later model call of the query is sent starts
\* with what every earlier one was sent.
C21_ConversationAppendOnly ==
    []SentArePrefixes /\ [][IsPrefix(messages, messages')]_vars

\* a query that sent its conversation three times, longer each time: to the
\* direct graph call, to the first and to the final call of the answerer
C21_Witness ==
    /\ Done
    /\ \E i, j, k \in AnsweringCalls :
          /\ i < j /\ j < k
          /\ Len(llm_calls[i].sent) < Len(llm_calls[j].sent)
          /\ Len(llm_calls[j].sent) < Len(llm_calls[k].sent)
    /\ web_calls > 0

-----------------------------------------------------------------------------
(* Intent extraction: the keywords of the model *)

\* extraction returned what it made of the model's keywords
ModelPath == Extracted /\ extract_resp.kind = "list"

HasSpace(k) == \E i \in 1..Len(k) : k[i] = " "

HasWhitespace(k) == \E i \in 1..Len(k) : IsSpace(k[i])

\* C23 as stated: no keyword returned on the model path holds a space, a tab
\* or a newline.
C23_NoWhitespaceInKeywords ==
    ModelPath => \A i \in 1..Len(search_terms) : ~HasWhitespace(search_terms[i])

\* C23: on the model path a keyword that holds a space is replaced by its
\* whitespace-delimited parts and any other keyword is returned as it is, so
\* no keyword returned holds a space; one with a tab and no space stays whole.
C23_NoSpaceInKeywords ==
    ModelPath =>
        /\ \A i \in 1..Len(search_terms) : ~HasSpace(search_terms[i])
        /\ Range(search_terms)
             = UNION { IF HasSpace(k) THEN Range(Split(k)) ELSE {k} :
                         k \in Range(extract_resp.keywords) }

\* the model gave one keyword with a space and a tab, returned as three
C23_Witness ==
    /\ ModelPath
    /\ \E k \in Range(extract_resp.keywords) : HasSpace(k) /\ HasWhitespace(k)
    /\ Len(extract_resp.keywords) = 1
    /\ Len(search_terms) = 3

-----------------------------------------------------------------------------
(* search: provenance and bundle of the result *)

\* C24: a result carries one of the four labels; GraphRAG comes only from a
\* query that is not forced, whose lookup found nodes and whose direct graph
\* response has no invocation and a text without refusal marker in any letter
\* case, and it carries that text and the bundle as retrieved; a result with
\* a node is labelled GraphRAG or Error.
C24_ProvenanceAndBundle ==
    Done =>
        /\ result.source \in {GraphRAG, WebSearch, AIKnowledge, ErrorSource}
        /\ result.source = GraphRAG =>
              /\ ~force
              /\ graph_nodes # <<>>
              /\ path = "graph"
              /\ graph_msg.role = "assistant"
              /\ graph_msg.tool_calls = <<>>
              /\ graph_msg.content # NULL
              /\ \A k \in RefusalKeywords : ~Contains(Lower(graph_msg.content), k)
              /\ result.text = graph_msg.content
              /\ result.graph_data = GraphData(graph_nodes, graph_edges)
              /\ Cardinality(AnsweringCalls) = 1
        /\ result.graph_data.nodes # <<>> => result.source \in {GraphRAG, ErrorSource}

\* a GraphRAG result with the nodes and an edge of the lookup
C24_Witness ==
    /\ Done
    /\ result.source = GraphRAG
    /\ result.graph_data.nodes # <<>>
    /\ result.graph_data.edges # <<>>
    /\ result.text = TextOk

\* C25: a result labelled WebSearch comes from a query that executed a web
\* search and whose final call was sent a tool-result message.
C25_WebSearchLabelMeansSearched ==
    (Done /\ result.source = WebSearch) =>
        /\ web_calls >= 1
        /\ \E i \in FinalCalls :
              \E k \in 1..Len(llm_calls[i].sent) : llm_calls[i].sent[k].role = "tool"

-----------------------------------------------------------------------------
(* Two calls of search: no interference *)

\* the user prompt of the conversation of call L
ExpectedPrompt(L) ==
    CASE L.path = "forced" -> ForcedMsg(L.query)
      [] L.path = "graph" -> GraphMsg(ContextText(L.context_lines), L.query)
      [] OTHER -> EmptyMsg(L.query)

\* the conversation of call L holds its own prompt, the responses it received
\* and the results of its own invocations, and its model calls were sent that
OwnConversation(L) ==
    /\ L.messages # <<>> =>
          /\ Len(L.messages) >= 2
          /\ L.messages[1] = SystemMsg
          /\ L.messages[2] = ExpectedPrompt(L)
          /\ \A k \in 3..Len(L.messages) :
                LET m == L.messages[k] IN
                \/ m = L.graph_msg
                \/ m = RetryMsg
                \/ m = L.tool_msg
                \/ /\ m.role = "tool"
                   /\ \E j \in 1..Len(L.tool_msg.tool_calls) :
                         m.tool_call_id = L.tool_msg.tool_calls[j].id
                   /\ \E o \in DdgsOutcomes : m.content = ToolResult(o)
    /\ \A i \in 1..Len(L.llm_calls) :
          IF L.llm_calls[i].site = "extract"
          THEN L.llm_calls[i].sent
                 = <<Msg("system", <<"EXTRACT">>), Msg("user", L.query)>>
          ELSE IsPrefix(L.llm_calls[i].sent, L.messages)

\* the bundle of call L comes from the rows its own keywords rank and from
\* the relations of those rows
OwnBundle(L) ==
    LET kept == {L.entities[i].name : i \in 1..Len(L.entities)} IN
    /\ L.pc # "extract" => L.search_terms \in ExtractTerms(L.query, L.extract_resp)
    /\ L.entities # <<>> => L.entities \in RankedRows(store, L.search_terms)
    /\ \A i \in 1..Len(L.graph_nodes) :
          \/ L.graph_nodes[i].id \in kept
          \/ \E r \in store.rels :
                r.source \in kept /\ r.target = L.graph_nodes[i].id
    /\ \A i \in 1..Len(L.graph_edges) :
          /\ L.graph_edges[i].source \in kept
          /\ \E r \in store.rels :
                L.graph_edges[i] = Edge(r.source, r.target, r.rel)

\* what search returns for the arguments, the bundle and the responses of
\* call L
ExpectedResult(L) ==
    LET g == GraphData(L.graph_nodes, L.graph_edges)
        branch == BranchOf(L.force, g)
        site == IF branch = "graph" THEN GraphStep(L.graph_msg) ELSE branch
    IN  IF L.failed # "none" THEN ErrorAnswer(g)
        ELSE IF site = "answer" THEN Answer(L.graph_msg.content, g, GraphRAG)
        ELSE IF L.tool_msg.tool_calls = <<>>
             THEN ReturnOf(site, L.tool_msg.content, AIKnowledge, g)
             ELSE ReturnOf(site, L.final_msg.content, WebSearch, g)

ResultAsAlone(L) ==
    /\ L.pc = "done" => L.result = ExpectedResult(L)
    /\ L.pc # "done" => L.result = NoResult

Isolated(L) == OwnConversation(L) /\ OwnBundle(L) /\ ResultAsAlone(L)

\* C22: with two calls of search interleaved at their external calls, the
\* conversation and the bundle of each hold only what was made for it, and
\* each result is the one its own arguments, bundle and responses give.
C22_NoInterference ==
    /\ Isolated(Locals)
    /\ peer # NoPeer => Isolated(peer)

\* both calls under way: one has run a web search and waits for its final
\* answer, the other holds a bundle and the refusal of its direct graph call
C22_Witness ==
    /\ peer # NoPeer
    /\ pc = "final_call"
    /\ web_calls = 1
    /\ peer.pc = "tool_call"
    /\ peer.sub = "refusal"
    /\ peer.graph_nodes # <<>>
    /\ peer.search_terms # search_terms

====
